---- MODULE Spec2Model ----
(***************************************************************************)
(* Model of ML_mapping.Mapping: one Mapping object, its constructor and     *)
(* its three public methods match_inputs, calculate_scores and              *)
(* format_results.  A method call is one action; a call that raises leaves  *)
(* the object in the state the statements executed before the raise put it  *)
(* in, and the exception type is recorded in last.outcome.                  *)
(*                                                                          *)
(* Optional values (Python None) are sequences of length 0 or 1:            *)
(* None is <<>> and a present value v is <<v>>.                             *)
(***************************************************************************)
EXTENDS Integers, Sequences, FiniteSets, TLC

VARIABLES pc, reference_classification, model, number_of_guesses,
          lists, reference_embeddings, inputs, input_embeddings,
          sorted_scores, indices, mapping, last, ret, calls

vars == <<pc, reference_classification, model, number_of_guesses,
          lists, reference_embeddings, inputs, input_embeddings,
          sorted_scores, indices, mapping, last, ret, calls>>

None == <<>>

Some(v) == <<v>>

\* ------------------------------------------------------------------ bounds
\* longest reference list stored in a data file
MaxRef == 2

\* largest number_of_guesses passed to the constructor
MaxGuesses == 2

\* longest list passed to match_inputs
MaxInputs == 2

\* most method calls made on the object after its construction
MaxCalls == 4

\* ------------------------------------------------------- classifications
\* the identifiers the constructor's docstring and dispatch know
Supported ==
  {"IOCC", "openIO-Canada", "NACE Rev.1.1", "NACE Rev.2", "CPA 2008",
   "CPA 2.1", "exiobase", "USEEIO 2.0", "GTAP 10", "NAPCS 2017",
   "NAPCS 2022", "NAICS 2017", "NAICS 2022", "ISIC Rev.4", "CPC 2.1",
   "COICOP 2018", "ecoinvent 3.8 technosphere", "ecoinvent 3.9 technosphere",
   "ecoinvent 3.8 elementary flows", "ecoinvent 3.9 elementary flows",
   "IMPACT World+ 2.0", "USEtox 2", "EF 3.0", "EF 3.1"}

\* identifiers a caller may pass: the supported ones and an unknown one
Identifiers == Supported \cup {"FOO"}

TransformerModels == {"all-MiniLM-L6-v2"}

\* the strings a caller matches
InputStrings == {"steel", "wheat"}

\* the per-classification list attributes of the object (lines 59-81)
Attributes ==
  {"iocc_sectors", "exio_sectors", "useeio_sectors", "gtap_sectors",
   "nace_1_1_sectors", "nace_2_sectors", "cpa_2008_sectors",
   "cpa_2_1_sectors", "napcs_2017_sectors", "napcs_2022_sectors",
   "naics_2017_sectors", "naics_2022_sectors", "isic_4_sectors",
   "cpc_2_1_sectors", "coicop_sectors", "ecoinvent_3_8_technosphere",
   "ecoinvent_3_9_technosphere", "ecoinvent_3_8_flows",
   "ecoinvent_3_9_flows", "iw_flows", "usetox_flows", "ef_3_0_flows",
   "ef_3_1_flows"}

\* the match_to_* methods: the file each opens, the attribute it assigns
\* and whether it encodes element [1] of every entry or the entry itself
Loaders ==
  [match_to_iocc        |-> [file |-> "IOCC_sectors.json", attr |-> "iocc_sectors", second |-> FALSE],
   match_to_nace_1_1    |-> [file |-> "NACE_1_1_sectors.json", attr |-> "nace_1_1_sectors", second |-> TRUE],
   match_to_nace_2      |-> [file |-> "NACE_2_sectors.json", attr |-> "nace_2_sectors", second |-> TRUE],
   match_to_cpa_2008    |-> [file |-> "CPA_2008_sectors.json", attr |-> "cpa_2008_sectors", second |-> TRUE],
   match_to_cpa_2_1     |-> [file |-> "CPA_2_1_sectors.json", attr |-> "cpa_2_1_sectors", second |-> TRUE],
   match_to_exio        |-> [file |-> "exiobase_sectors.json", attr |-> "exio_sectors", second |-> FALSE],
   match_to_useeio      |-> [file |-> "USEEIO_sectors.json", attr |-> "useeio_sectors", second |-> FALSE],
   match_to_gtap        |-> [file |-> "GTAP_sectors.json", attr |-> "gtap_sectors", second |-> FALSE],
   match_to_napcs_2017  |-> [file |-> "NAPCS_2017_sectors.json", attr |-> "napcs_2017_sectors", second |-> TRUE],
   match_to_napcs_2022  |-> [file |-> "NAPCS_2022_sectors.json", attr |-> "napcs_2022_sectors", second |-> TRUE],
   match_to_naics_2017  |-> [file |-> "NAICS_2017_sectors.json", attr |-> "naics_2017_sectors", second |-> TRUE],
   match_to_naics_2022  |-> [file |-> "NAICS_2022_sectors.json", attr |-> "naics_2022_sectors", second |-> TRUE],
   match_to_isic_4      |-> [file |-> "ISIC_4_sectors.json", attr |-> "isic_4_sectors", second |-> TRUE],
   match_to_cpc_2_1     |-> [file |-> "CPC_2_1_sectors.json", attr |-> "cpc_2_1_sectors", second |-> TRUE],
   match_to_coicop      |-> [file |-> "COICOP_2018_sectors.json", attr |-> "coicop_sectors", second |-> TRUE],
   match_to_iw          |-> [file |-> "IW_2.0_flows.json", attr |-> "iw_flows", second |-> FALSE],
   match_to_ei38_techno |-> [file |-> "ecoinvent_3_8_sectors.json", attr |-> "ecoinvent_3_8_technosphere", second |-> FALSE],
   match_to_ei39_techno |-> [file |-> "ecoinvent_3_9_sectors.json", attr |-> "ecoinvent_3_9_technosphere", second |-> FALSE],
   match_to_ei38_flows  |-> [file |-> "ecoinvent_3_8_flows.json", attr |-> "ecoinvent_3_8_flows", second |-> FALSE],
   match_to_ei39_flows  |-> [file |-> "ecoinvent_3_9_flows.json", attr |-> "ecoinvent_3_9_flows", second |-> FALSE],
   match_to_usetox      |-> [file |-> "USEtox_flows.json", attr |-> "usetox_flows", second |-> FALSE],
   match_to_ef_3_0      |-> [file |-> "EF_3_0_flows.json", attr |-> "ef_3_0_flows", second |-> FALSE],
   match_to_ef_3_1      |-> [file |-> "EF_3_1_flows.json", attr |-> "ef_3_1_flows", second |-> FALSE]]

Files == {Loaders[m].file : m \in DOMAIN Loaders}

\* the files whose entries are (code, label) pairs
PairFiles == {Loaders[m].file : m \in {n \in DOMAIN Loaders : Loaders[n].second}}

\* the if/elif chain of the constructor: the method called for an
\* identifier, "none" when no branch matches
InitDispatch(rc) ==
  IF rc \in {"IOCC", "openIO-Canada"} THEN "match_to_iocc"
  ELSE IF rc \in {"NACE Rev.1.1"} THEN "match_to_nace_1_1"
  ELSE IF rc \in {"NACE Rev.2"} THEN "match_to_nace_2"
  ELSE IF rc \in {"CPA 2008"} THEN "match_to_cpa_2008"
  ELSE IF rc \in {"CPA 2.1"} THEN "match_to_cpa_2_1"
  ELSE IF rc \in {"exiobase"} THEN "match_to_exio"
  ELSE IF rc \in {"USEEIO 2.0"} THEN "match_to_useeio"
  ELSE IF rc \in {"GTAP 10"} THEN "match_to_gtap"
  ELSE IF rc \in {"NAPCS 2017"} THEN "match_to_napcs_2017"
  ELSE IF rc \in {"NAPCS 2022"} THEN "match_to_napcs_2022"
  ELSE IF rc \in {"NAICS 2017"} THEN "match_to_naics_2017"
  ELSE IF rc \in {"NAICS 2022"} THEN "match_to_naics_2022"
  ELSE IF rc \in {"ISIC Rev.4"} THEN "match_to_isic_4"
  ELSE IF rc \in {"CPC 2.1"} THEN "match_to_cpc_2_1"
  ELSE IF rc \in {"COICOP 2018"} THEN "match_to_coicop"
  ELSE IF rc \in {"ecoinvent 3.8 technosphere"} THEN "match_to_ei38_techno"
  ELSE IF rc \in {"ecoinvent 3.9 technosphere"} THEN "match_to_ei39_techno"
  ELSE IF rc \in {"ecoinvent 3.8 elementary flows"} THEN "match_to_ei38_flows"
  ELSE IF rc \in {"ecoinvent 3.9 elementary flows"} THEN "match_to_ei39_flows"
  ELSE IF rc \in {"IMPACT World+ 2.0"} THEN "match_to_iw"
  ELSE IF rc \in {"USEtox 2"} THEN "match_to_usetox"
  ELSE IF rc \in {"EF 3.0"} THEN "match_to_ef_3_0"
  ELSE IF rc \in {"EF 3.1"} THEN "match_to_ef_3_1"
  ELSE "none"

\* FormatDispatch with the two NAPCS branches reading each other's
\* attribute
FormatDispatch_CrossedNAPCS(rc) ==
  IF rc = "NAPCS 2017" THEN "napcs_2022_sectors"
  ELSE IF rc = "NAPCS 2022" THEN "napcs_2017_sectors"
  ELSE IF InitDispatch(rc) = "none" THEN "unbound"
  ELSE Loaders[InitDispatch(rc)].attr

\* the if/elif chain at the head of format_results: the attribute bound to
\* reference_list, "unbound" when no branch matches
FormatDispatch(rc) ==
  IF rc \in {"IOCC", "openIO-Canada"} THEN "iocc_sectors"
  ELSE IF rc \in {"NACE Rev.1.1"} THEN "nace_1_1_sectors"
  ELSE IF rc \in {"NACE Rev.2"} THEN "nace_2_sectors"
  ELSE IF rc \in {"CPA 2008"} THEN "cpa_2008_sectors"
  ELSE IF rc \in {"CPA 2.1"} THEN "cpa_2_1_sectors"
  ELSE IF rc \in {"exiobase"} THEN "exio_sectors"
  ELSE IF rc \in {"USEEIO 2.0"} THEN "useeio_sectors"
  ELSE IF rc \in {"GTAP 10"} THEN "gtap_sectors"
  ELSE IF rc \in {"NAPCS 2017"} THEN "napcs_2017_sectors"
  ELSE IF rc \in {"NAPCS 2022"} THEN "napcs_2022_sectors"
  ELSE IF rc \in {"NAICS 2017"} THEN "naics_2017_sectors"
  ELSE IF rc \in {"NAICS 2022"} THEN "naics_2022_sectors"
  ELSE IF rc \in {"ISIC Rev.4"} THEN "isic_4_sectors"
  ELSE IF rc \in {"CPC 2.1"} THEN "cpc_2_1_sectors"
  ELSE IF rc \in {"COICOP 2018"} THEN "coicop_sectors"
  ELSE IF rc \in {"ecoinvent 3.8 technosphere"} THEN "ecoinvent_3_8_technosphere"
  ELSE IF rc \in {"ecoinvent 3.9 technosphere"} THEN "ecoinvent_3_9_technosphere"
  ELSE IF rc \in {"ecoinvent 3.8 elementary flows"} THEN "ecoinvent_3_8_flows"
  ELSE IF rc \in {"ecoinvent 3.9 elementary flows"} THEN "ecoinvent_3_9_flows"
  ELSE IF rc \in {"IMPACT World+ 2.0"} THEN "iw_flows"
  ELSE IF rc \in {"USEtox 2"} THEN "usetox_flows"
  ELSE IF rc \in {"EF 3.0"} THEN "ef_3_0_flows"
  ELSE IF rc \in {"EF 3.1"} THEN "ef_3_1_flows"
  ELSE "unbound"

\* the identifiers format_results renders as {order, sector, similarity}
PlainGroup ==
  {"IOCC", "openIO-Canada", "exiobase", "USEEIO 2.0", "GTAP 10",
   "ecoinvent 3.8 elementary flows", "ecoinvent 3.9 elementary flows",
   "ecoinvent 3.8 technosphere", "ecoinvent 3.9 technosphere",
   "IMPACT World+ 2.0", "USEtox 2", "EF 3.0", "EF 3.1"}

\* the identifiers format_results renders with a 'code sector' column
CodeGroup ==
  {"NACE Rev.1.1", "NACE Rev.2", "CPA 2008", "CPA 2.1", "NAPCS 2017",
   "NAPCS 2022", "NAICS 2017", "NAICS 2022", "ISIC Rev.4", "CPC 2.1",
   "COICOP 2018"}

\* ---------------------------------------------------------- reference data
\* the labels and the codes a data file is filled from
MasterLabels == <<"Crop farming", "Coal mining", "Steel making", "Fishing">>

MasterCodes == <<"A01", "B05", "C24", "A03">>

\* the data files that hold a single entry; the others hold MaxRef entries
ShortFiles ==
  {"IOCC_sectors.json", "NACE_2_sectors.json", "CPC_2_1_sectors.json",
   "EF_3_1_flows.json"}

\* the content of a data file: 2-element [code, label] lists in the files
\* of the code-bearing classifications, bare labels in the others
FileContent(f) ==
  [k \in 1..(IF f \in ShortFiles THEN 1 ELSE MaxRef) |->
     IF f \in PairFiles THEN <<MasterCodes[k], MasterLabels[k]>>
     ELSE MasterLabels[k]]

\* the Data directory of the package: the content of every file
Data == [f \in Files |-> FileContent(f)]

\* ------------------------------------------------- the embedding provider
\* SentenceTransformer.encode on one string: the embedding is a unit vector
\* of the plane, named by its angle in steps of 60 degrees
Embed(s) ==
  CASE s = "wheat" -> 0
    [] s = "steel" -> 1
    [] s = "Crop farming" -> 0
    [] s = "Coal mining" -> 2
    [] s = "Steel making" -> 1
    [] s = "Fishing" -> 3
    [] s = "A01" -> 3
    [] s = "B05" -> 1
    [] s = "C24" -> 0
    [] s = "A03" -> 2

\* model.encode(list): one embedding per string; an empty list gives an
\* empty array
Encode(strings) == [k \in 1..Len(strings) |-> Embed(strings[k])]

\* cosine of the angle between two embeddings, in thousandths
Cosine(u, v) ==
  LET d == IF u >= v THEN u - v ELSE v - u
  IN CASE d = 0 -> 1000
       [] d = 1 -> 500
       [] d = 2 -> 0 - 500
       [] d = 3 -> 0 - 1000

\* util.pytorch_cos_sim(a, b) on two optional arrays: <<"error">> when the
\* library raises, else <<"ok", matrix>>.  None cannot be made a tensor; an
\* empty array is unsqueezed to a 1 x 0 matrix, whose product with a
\* non-empty operand has mismatched shapes and with another 1 x 0 matrix is
\* the 1 x 1 zero matrix
pytorch_cos_sim(a, b) ==
  IF a = None \/ b = None THEN <<"error">>
  ELSE IF (a[1] = <<>>) # (b[1] = <<>>) THEN <<"error">>
  ELSE IF a[1] = <<>> THEN <<"ok", <<<<0>>>> >>
  ELSE <<"ok", [i \in 1..Len(a[1]) |->
                 [j \in 1..Len(b[1]) |-> Cosine(a[1][i], b[1][j])]]>>

\* SortOutcomes of a sort that gathers by column maps that need not be
\* one-to-one
SortOutcomes_Repeating(row) ==
  {p \in [1..Len(row) -> 1..Len(row)] :
     \A r, t \in 1..Len(row) : r < t => row[p[r]] >= row[p[t]]}

\* SortOutcomes of a sort called with descending=False
SortOutcomes_Ascending(row) ==
  {p \in Permutations(1..Len(row)) :
     \A r, t \in 1..Len(row) : r < t => row[p[r]] <= row[p[t]]}

\* the orders Tensor.sort(descending=True) may return for one row: every
\* permutation p of the columns that puts the scores in non-increasing
\* order (sort is called without stable=True, so the order of equal scores
\* is the library's choice)
SortOutcomes(row) ==
  {p \in Permutations(1..Len(row)) :
     \A r, t \in 1..Len(row) : r < t => row[p[r]] >= row[p[t]]}

\* scores.sort(dim=1, descending=True): the possible results, each a pair
\* of (sorted value rows, rows of 0-based column indices)
Sort(scores) ==
  {<<[i \in 1..Len(scores) |-> [r \in 1..Len(scores[i]) |-> scores[i][P[i][r]]]],
     [i \in 1..Len(scores) |-> [r \in 1..Len(scores[i]) |-> P[i][r] - 1]]>> :
     P \in {Q \in [1..Len(scores) -> UNION {SortOutcomes(scores[i]) : i \in 1..Len(scores)}] :
              \A i \in 1..Len(scores) : Q[i] \in SortOutcomes(scores[i])}}

\* ------------------------------------------------------------- the object
NoCall == [op |-> "none", outcome |-> "none"]

Init ==
  /\ pc = "new"
  /\ reference_classification = None
  /\ model = None
  /\ number_of_guesses = None
  /\ lists = [a \in Attributes |-> None]
  /\ reference_embeddings = None
  /\ inputs = None
  /\ input_embeddings = None
  /\ sorted_scores = None
  /\ indices = None
  /\ mapping = None
  /\ last = NoCall
  /\ ret = None
  /\ calls = 0

\* the strings a match_to_* method passes to model.encode
EncodedStrings(method, list) ==
  IF Loaders[method].second THEN [k \in 1..Len(list) |-> list[k][2]]
  ELSE list

\* Mapping(reference_classification, transformer_model, number_of_guesses)
Construct(rc, tm, n) ==
  /\ pc = "new"
  /\ pc' = "live"
  /\ reference_classification' = Some(rc)
  /\ model' = Some(tm)
  /\ number_of_guesses' = Some(n)
  /\ LET method == InitDispatch(rc) IN
       IF method = "none"
       THEN /\ lists' = [a \in Attributes |-> None]
            /\ reference_embeddings' = None
       ELSE LET list == Data[Loaders[method].file] IN
            /\ lists' = [a \in Attributes |->
                           IF a = Loaders[method].attr THEN Some(list) ELSE None]
            /\ reference_embeddings' = Some(Encode(EncodedStrings(method, list)))
  /\ last' = [op |-> "__init__", outcome |-> "ok"]
  /\ ret' = None
  /\ UNCHANGED <<calls, inputs, input_embeddings, sorted_scores, indices, mapping>>

\* match_inputs storing the embeddings of the inputs in
\* reference_embeddings as well
match_inputs_Clobbering(xs) ==
  /\ pc = "live"
  /\ calls < MaxCalls
  /\ calls' = calls + 1
  /\ inputs' = Some(xs)
  /\ input_embeddings' = Some(Encode(xs))
  /\ reference_embeddings' = Some(Encode(xs))
  /\ last' = [op |-> "match_inputs", outcome |-> "ok"]
  /\ ret' = None
  /\ UNCHANGED <<pc, reference_classification, model, number_of_guesses,
                 lists, sorted_scores, indices, mapping>>

\* match_inputs(inputs)
match_inputs(xs) ==
  /\ pc = "live"
  /\ calls < MaxCalls
  /\ calls' = calls + 1
  /\ inputs' = Some(xs)
  /\ input_embeddings' = Some(Encode(xs))
  /\ last' = [op |-> "match_inputs", outcome |-> "ok"]
  /\ ret' = None
  /\ UNCHANGED <<pc, reference_classification, model, number_of_guesses,
                 lists, reference_embeddings, sorted_scores, indices, mapping>>

\* calculate_scores(): when pytorch_cos_sim raises (the library's
\* RuntimeError), neither attribute is assigned
calculate_scores ==
  /\ pc = "live"
  /\ calls < MaxCalls
  /\ calls' = calls + 1
  /\ LET scores == pytorch_cos_sim(input_embeddings, reference_embeddings) IN
       IF scores[1] = "error"
       THEN /\ last' = [op |-> "calculate_scores", outcome |-> "RuntimeError"]
            /\ UNCHANGED <<sorted_scores, indices>>
       ELSE /\ \E s \in Sort(scores[2]) :
                 /\ sorted_scores' = Some(s[1])
                 /\ indices' = Some(s[2])
            /\ last' = [op |-> "calculate_scores", outcome |-> "ok"]
  /\ ret' = None
  /\ UNCHANGED <<pc, reference_classification, model, number_of_guesses,
                 lists, reference_embeddings, inputs, input_embeddings, mapping>>

\* --------------------------------------------------------- format_results
\* LoopCells with the two loops exchanged: j outside, i inside
LoopCells_RankOuter(n, g) ==
  IF g <= 0 THEN <<>>
  ELSE [k \in 1..(n * g) |-> <<((k - 1) % n) + 1, (k - 1) \div n>>]

\* the (i, j) pairs the two nested loops of format_results visit, in the
\* order they visit them: i over the positions of the inputs (1-based
\* here), j over range(0, number_of_guesses)
LoopCells(n, g) ==
  IF g <= 0 THEN <<>>
  ELSE [k \in 1..(n * g) |-> <<((k - 1) \div g) + 1, (k - 1) % g>>]

\* what building the column of cell (i, j) raises, "ok" when nothing:
\* self.indices[i][j] on None, beyond the rows or beyond the columns of
\* the index tensor, then reference_list[...] on None or beyond the list
CellOutcome(i, j, reference_list) ==
  IF indices = None THEN "TypeError"
  ELSE IF i > Len(indices[1]) THEN "IndexError"
  ELSE IF j + 1 > Len(indices[1][i]) THEN "IndexError"
  ELSE IF reference_list = None THEN "TypeError"
  ELSE IF indices[1][i][j + 1] + 1 > Len(reference_list[1]) THEN "IndexError"
  ELSE "ok"

\* the column the plain branch concatenates for cell (i, j)
PlainColumn(i, j, reference_list) ==
  [product    |-> inputs[1][i],
   order      |-> j + 1,
   sector     |-> reference_list[1][indices[1][i][j + 1] + 1],
   similarity |-> sorted_scores[1][i][j + 1]]

\* CodeColumn reading element [0] of the entry for both cells
CodeColumn_CodeTwice(i, j, reference_list) ==
  [product     |-> inputs[1][i],
   order       |-> j + 1,
   code_sector |-> reference_list[1][indices[1][i][j + 1] + 1][1],
   sector      |-> reference_list[1][indices[1][i][j + 1] + 1][1],
   similarity  |-> sorted_scores[1][i][j + 1]]

\* the column the code-bearing branch concatenates for cell (i, j)
CodeColumn(i, j, reference_list) ==
  [product     |-> inputs[1][i],
   order       |-> j + 1,
   code_sector |-> reference_list[1][indices[1][i][j + 1] + 1][1],
   sector      |-> reference_list[1][indices[1][i][j + 1] + 1][2],
   similarity  |-> sorted_scores[1][i][j + 1]]

\* the frame before .T.set_index(['product', 'order']): the columns
\* concatenated so far, one per cell
WideFrame(columns) == [indexed |-> FALSE, rows |-> columns]

\* the frame after .T.set_index(['product', 'order']): one row per
\* concatenated column, in the same order, indexed by (product, order)
IndexedFrame(columns) == [indexed |-> TRUE, rows |-> columns]

\* format_results()
format_results ==
  /\ pc = "live"
  /\ calls < MaxCalls
  /\ calls' = calls + 1
  /\ LET rc == reference_classification[1]
         reference_list == IF FormatDispatch(rc) = "unbound" THEN None
                           ELSE lists[FormatDispatch(rc)]
         g == number_of_guesses[1]
         cells == IF inputs = None THEN <<>> ELSE LoopCells(Len(inputs[1]), g)
         bad == {k \in 1..Len(cells) :
                   CellOutcome(cells[k][1], cells[k][2], reference_list) # "ok"}
         done == IF bad = {} THEN Len(cells)
                 ELSE (CHOOSE k \in bad : \A h \in bad : k <= h) - 1
         columns == [k \in 1..done |->
                       IF rc \in PlainGroup
                       THEN PlainColumn(cells[k][1], cells[k][2], reference_list)
                       ELSE CodeColumn(cells[k][1], cells[k][2], reference_list)]
     IN
       IF rc \notin PlainGroup \cup CodeGroup
       THEN \* neither branch is taken: the method falls off its end
            /\ last' = [op |-> "format_results", outcome |-> "ok"]
            /\ ret' = None
            /\ UNCHANGED mapping
       ELSE IF inputs = None
       THEN \* enumerate(None)
            /\ mapping' = Some(WideFrame(<<>>))
            /\ last' = [op |-> "format_results", outcome |-> "TypeError"]
            /\ ret' = None
       ELSE IF bad # {}
       THEN \* a cell raises: the columns before it stay in self.mapping
            /\ mapping' = Some(WideFrame(columns))
            /\ last' = [op |-> "format_results",
                        outcome |-> CellOutcome(cells[done + 1][1],
                                                cells[done + 1][2], reference_list)]
            /\ ret' = None
       ELSE IF done = 0
       THEN \* no column was concatenated: there is no 'product' to index by
            /\ mapping' = Some(WideFrame(<<>>))
            /\ last' = [op |-> "format_results", outcome |-> "KeyError"]
            /\ ret' = None
       ELSE /\ mapping' = Some(IndexedFrame(columns))
            /\ last' = [op |-> "format_results", outcome |-> "ok"]
            /\ ret' = mapping'
  /\ UNCHANGED <<pc, reference_classification, model, number_of_guesses,
                 lists, reference_embeddings, inputs, input_embeddings,
                 sorted_scores, indices>>

\* the lists a caller passes to match_inputs
InputLists == UNION {[1..n -> InputStrings] : n \in 0..MaxInputs}

Next ==
  \/ \E rc \in Identifiers, tm \in TransformerModels, n \in 1..MaxGuesses :
       Construct(rc, tm, n)
  \/ \E xs \in InputLists : match_inputs(xs)
  \/ calculate_scores
  \/ format_results

Spec == Init /\ [][Next]_vars

\* ------------------------------------------------------------------ claims
\* the reference list format_results resolves indices against
ReferenceList == lists[FormatDispatch(reference_classification[1])][1]

\* the last call was a format_results on a supported classification
Formatted ==
  /\ last.op = "format_results"
  /\ reference_classification[1] \in Supported

\* the last call was a format_results that returned a table
Tabulated == Formatted /\ last.outcome = "ok" /\ ret # None

\* the input list is not empty and calculate_scores has left a ranked list
\* for every position of it
Ranked ==
  /\ inputs # None /\ inputs[1] # <<>>
  /\ indices # None /\ Len(indices[1]) >= Len(inputs[1])

\* the position in the input list and the rank that row k of a table of
\* number_of_guesses rows per input stands for
RowInput(k) == ((k - 1) \div number_of_guesses[1]) + 1

RowRank(k) == ((k - 1) % number_of_guesses[1]) + 1

C2_RowContent ==
  Tabulated =>
    \A k \in 1..Len(ret[1].rows) :
      LET e == indices[1][RowInput(k)][RowRank(k)] + 1 IN
        /\ ret[1].rows[k].sector = MasterLabels[e]
        /\ ret[1].rows[k].similarity = sorted_scores[1][RowInput(k)][RowRank(k)]
        /\ reference_classification[1] \in CodeGroup =>
             /\ ret[1].rows[k].code_sector = MasterCodes[e]
             /\ ReferenceList[e] = <<ret[1].rows[k].code_sector, ret[1].rows[k].sector>>

\* a code-bearing table whose first row is not the first reference entry
C2_Witness ==
  /\ Tabulated
  /\ reference_classification[1] \in CodeGroup
  /\ ret[1].rows[1].code_sector = "B05"
  /\ ret[1].rows[1].sector = "Coal mining"

\* C3: format_results with number_of_guesses > M (on ranked inputs) fails
\* with InsufficientReferenceEntries, and the error carries M.
C3_InsufficientReferenceEntries ==
  (Formatted /\ Ranked /\ number_of_guesses[1] > Len(ReferenceList))
  => last = [op |-> "format_results", outcome |-> "InsufficientReferenceEntries",
             max |-> Len(ReferenceList)]

\* C4: the constructor fails with UnknownClassification on an identifier
\* that is not supported, before the embedding model is loaded and before
\* anything is encoded.
C4_UnknownClassification ==
  (last.op = "__init__" /\ reference_classification[1] \notin Supported)
  => /\ last.outcome = "UnknownClassification"
     /\ model = None
     /\ reference_embeddings = None

\* the last call was a calculate_scores on a non-empty input list and a
\* non-empty reference list
Scored ==
  /\ last.op = "calculate_scores"
  /\ inputs # None /\ inputs[1] # <<>>
  /\ reference_embeddings # None /\ reference_embeddings[1] # <<>>

\* C5: calculate_scores on a non-empty input list and a non-empty reference
\* list leaves one index list per input, each a permutation of 0..M-1.
C5_IndexPermutation ==
  Scored =>
    /\ last.outcome = "ok"
    /\ Len(indices[1]) = Len(inputs[1])
    /\ \A i \in 1..Len(indices[1]) :
         /\ Len(indices[1][i]) = Len(ReferenceList)
         /\ {indices[1][i][r] : r \in 1..Len(indices[1][i])}
              = 0..(Len(ReferenceList) - 1)

\* two inputs ranked against two reference entries, in different orders
C5_Witness ==
  /\ Scored
  /\ Len(ReferenceList) >= 2
  /\ Len(indices[1]) = 2
  /\ indices[1][1] # indices[1][2]

\* C6: the scores of every ranked list are non-increasing with rank, and so
\* is the similarity column of self.mapping within the rows of one input.
C6_ScoresNonIncreasing ==
  /\ sorted_scores # None =>
       \A i \in 1..Len(sorted_scores[1]) :
         \A r, t \in 1..Len(sorted_scores[1][i]) :
           r < t => sorted_scores[1][i][r] >= sorted_scores[1][i][t]
  /\ mapping # None =>
       \A k, h \in 1..Len(mapping[1].rows) :
         (k < h /\ RowInput(k) = RowInput(h))
           => mapping[1].rows[k].similarity >= mapping[1].rows[h].similarity

\* a table with a block of two rows of different similarity
C6_Witness ==
  /\ Tabulated
  /\ number_of_guesses[1] = 2
  /\ ret[1].rows[1].similarity > ret[1].rows[2].similarity

\* C7: among reference entries of equal similarity to an input,
\* calculate_scores ranks the smaller reference index first.
C7_StableTies ==
  indices # None =>
    \A i \in 1..Len(indices[1]) :
      \A r, t \in 1..Len(indices[1][i]) :
        (r < t /\ sorted_scores[1][i][r] = sorted_scores[1][i][t])
          => indices[1][i][r] < indices[1][i][t]

\* C8: no two rows of a returned table have the same (product, order) key,
\* also when one string is at two positions of the input list.
C8_UniqueKey ==
  Tabulated =>
    \A k, h \in 1..Len(ret[1].rows) :
      k # h => <<ret[1].rows[k].product, ret[1].rows[k].order>>
                 # <<ret[1].rows[h].product, ret[1].rows[h].order>>

\* C9: calculate_scores on an empty input list or an empty reference list
\* fails with EmptyInput.
C9_EmptyInput ==
  (/\ last.op = "calculate_scores"
   /\ inputs # None /\ reference_embeddings # None
   /\ (inputs[1] = <<>> \/ reference_embeddings[1] = <<>>))
  => last.outcome = "EmptyInput"

\* C10: once the object is constructed, no call changes the loaded
\* reference lists, the reference embeddings or reference_classification.
C10_CatalogReadOnly ==
  [][pc = "live" =>
       /\ lists' = lists
       /\ reference_embeddings' = reference_embeddings
       /\ reference_classification' = reference_classification]_vars

\* a full pipeline has run on a loaded catalog
C10_Witness ==
  /\ Tabulated
  /\ sorted_scores # None
  /\ lists[FormatDispatch(reference_classification[1])]
       = Some(Data[Loaders[InitDispatch(reference_classification[1])].file])
  /\ reference_embeddings # None

\* C11: for every supported identifier the list format_results resolves
\* indices against is the list the constructor loaded (never None) and
\* reference_embeddings holds, entry by entry, the embedding of the label of
\* that list; the identifier is in exactly one of the two groups of
\* format_results, the code-bearing one exactly when its match_to_* method
\* encoded element [1] of every entry.
C11_DispatchTablesAgree ==
  (pc = "live" /\ reference_classification[1] \in Supported) =>
    LET rc == reference_classification[1]
        loader == Loaders[InitDispatch(rc)]
        resolved == lists[FormatDispatch(rc)]
    IN /\ resolved # None
       /\ resolved = lists[loader.attr]
       /\ resolved[1] = Data[loader.file]
       /\ (rc \in PlainGroup) # (rc \in CodeGroup)
       /\ (rc \in CodeGroup) <=> loader.second
       /\ reference_embeddings # None
       /\ Len(reference_embeddings[1]) = Len(resolved[1])
       /\ \A j \in 1..Len(resolved[1]) :
            reference_embeddings[1][j]
              = Embed(IF rc \in CodeGroup THEN resolved[1][j][2] ELSE resolved[1][j])

\* a table was returned for a code-bearing classification of two entries
\* or more
C11_Witness ==
  /\ Tabulated
  /\ reference_classification[1] \in CodeGroup
  /\ Len(ReferenceList) >= 2
  /\ ret[1].rows[1].code_sector = MasterCodes[indices[1][1][1] + 1]

\* C12: every row of a table format_results returns carries the similarity
\* of the input at the row's position in the current input list to the
\* reference entry the row names: the table is never built from scores
\* computed for an earlier input list.
C12_ScoresOfCurrentInputs ==
  Tabulated =>
    \A k \in 1..Len(ret[1].rows) :
      ret[1].rows[k].similarity
        = Cosine(input_embeddings[1][RowInput(k)],
                 reference_embeddings[1][indices[1][RowInput(k)][RowRank(k)] + 1])

====
